---- MODULE Spec2Model ----
(***************************************************************************)
(* Model of fox::log (src/src/log.rs): the syntax highlighter              *)
(* highlight_syntax with its five regex classifiers, the span table        *)
(* (BTreeMap keyed by start offset), the renderer, and the logging macros  *)
(* that gate on LEVEL and on the message length.                           *)
(*                                                                         *)
(* A text is a sequence of one-character strings (ASCII, one byte each).   *)
(* Offsets are Rust's 0-based byte offsets: the span [s, e) covers the     *)
(* characters T[s+1] .. T[e] of the 1-based TLA+ sequence.                 *)
(***************************************************************************)
EXTENDS Integers, Sequences, FiniteSets, TLC

VARIABLES
    LEVEL,      \* the process-wide AtomicU8
    pc,         \* position inside the current highlight_syntax call
    caller,     \* who made the current call: "none", "direct", "log_impl", "slog_impl"
    pass,       \* 1 for a call on a fresh text, 2 for a call on a previous result
    text,       \* the argument of the current highlight_syntax call
    matches,    \* the span table: start |-> [end, colored, prio]
    pending,    \* the matches the current classifier's iterator has still to yield
    consulted,  \* the classifiers whose find_iter has been called in this call
    todo,       \* the keys of the span table the render loop has still to visit
    last_end,   \* the render cursor
    result,     \* the output string being built, then returned
    printed,    \* the line the latest logging macro call printed, NoLine if none
    api,        \* the latest call of a function of the level API
    REGEX_CACHE,\* the OnceLock<RegexCache>
    inits,      \* how many times the initialiser closure of REGEX_CACHE has been entered
    getter,     \* per thread: its position in get_regex_cache and the bank it got
    thr,        \* per thread: the locals of its highlight_syntax call
    tables      \* per thread: the span table of its highlight_syntax call

\* the variables of the threads calling get_regex_cache
onceVars == <<REGEX_CACHE, inits, getter>>

\* the variables of the threads calling highlight_syntax side by side
concVars == <<thr, tables>>

vars == <<LEVEL, pc, caller, pass, text, matches, pending, consulted, todo,
          last_end, result, printed, api, onceVars, concVars>>

-----------------------------------------------------------------------------
(* Characters *)

ESC == "ESC"          \* the byte 0x1b
DQ  == "\""
SQ  == "'"
BS  == "\\"
NL  == "NL"           \* the byte 0x0a

Digits == {"0", "1", "2", "3", "4", "5", "6", "7", "8", "9"}

Letters ==
    {"a", "b", "c", "d", "e", "f", "g", "h", "i", "j", "k", "l", "m",
     "n", "o", "p", "q", "r", "s", "t", "u", "v", "w", "x", "y", "z",
     "A", "B", "C", "D", "E", "F", "G", "H", "I", "J", "K", "L", "M",
     "N", "O", "P", "Q", "R", "S", "T", "U", "V", "W", "X", "Y", "Z"}

\* \d
IsDigit(c) == c \in Digits

\* \w
IsWordChar(c) == c \in Digits \cup Letters \cup {"_"}

\* [\[\]{}()]
Brackets == {"[", "]", "{", "}", "(", ")"}

\* [0-9;]
AnsiParams == Digits \cup {";"}

Min(S) == CHOOSE x \in S : \A y \in S : x <= y
Max(S) == CHOOSE x \in S : \A y \in S : x >= y

\* text[a..b] of Rust, on 0-based offsets
Slice(T, a, b) == SubSeq(T, a + 1, b)

\* \b at offset i: exactly one of the characters before and after i is a word character
WordBoundary(T, i) ==
    LET before == i > 0 /\ IsWordChar(T[i])
        after  == i < Len(T) /\ IsWordChar(T[i + 1])
    IN  before # after

\* the first offset >= s whose character is not in class, or Len(T)
RunEnd(T, s, class) ==
    Min({i \in s..Len(T) : i = Len(T) \/ T[i + 1] \notin class})

-----------------------------------------------------------------------------
(* The pattern bank: for each regex, the end of its match starting at       *)
(* offset s, or -1 when it does not match there.                            *)

\* the ansi pattern with [0-9;]+ in place of [0-9;]*
AnsiEndAtPlus(T, s) ==
    IF s + 1 < Len(T) /\ T[s + 1] = ESC /\ T[s + 2] = "["
    THEN LET r == Min({i \in (s + 2)..Len(T) : i = Len(T) \/ T[i + 1] \notin Digits \cup {";"}})
         IN  IF r > s + 2 /\ r < Len(T) /\ T[r + 1] \in Letters THEN r + 1 ELSE -1
    ELSE -1

\* \x1b\[[0-9;]*[a-zA-Z]
AnsiEndAt(T, s) ==
    IF s + 1 < Len(T) /\ T[s + 1] = ESC /\ T[s + 2] = "["
    THEN LET r == RunEnd(T, s + 2, AnsiParams)
         IN  IF r < Len(T) /\ T[r + 1] \in Letters THEN r + 1 ELSE -1
    ELSE -1

\* the body of a quoted string after its opening quote q:
\* [^q\\]*(?:\\.[^q\\]*)*q  ('.' matches any character but a newline)
RECURSIVE ScanString(_, _, _)
ScanString(T, q, i) ==
    IF i >= Len(T) THEN -1
    ELSE IF T[i + 1] = q THEN i + 1
    ELSE IF T[i + 1] = BS
         THEN IF i + 1 < Len(T) /\ T[i + 2] # NL
              THEN ScanString(T, q, i + 2)
              ELSE -1
    ELSE ScanString(T, q, i + 1)

\* ("[^"\\]*(?:\\.[^"\\]*)*"|'[^'\\]*(?:\\.[^'\\]*)*')
StringEndAt(T, s) ==
    IF s < Len(T) /\ T[s + 1] \in {DQ, SQ}
    THEN ScanString(T, T[s + 1], s + 1)
    ELSE -1

\* \b\d+\.?\d*\b   Greedy with backtracking: \d+ takes the whole digit run
\* ending at a; when a '.' follows, the ends tried first are those after the
\* '.', from the longest (b) down to the '.' itself (a + 1); then the end a
\* without the '.'. A shorter \d+ only reaches ends inside the digit run,
\* where \b fails.
NumberEndAt(T, s) ==
    IF s < Len(T) /\ IsDigit(T[s + 1]) /\ WordBoundary(T, s)
    THEN LET a == RunEnd(T, s, Digits)
             dotted == a < Len(T) /\ T[a + 1] = "."
             b == IF dotted THEN RunEnd(T, a + 1, Digits) ELSE a
             after == {e \in (a + 1)..b : dotted /\ WordBoundary(T, e)}
         IN  IF after # {} THEN Max(after)
             ELSE IF WordBoundary(T, a) THEN a
             ELSE -1
    ELSE -1

BooleanWords ==
    << <<"t", "r", "u", "e">>,
       <<"f", "a", "l", "s", "e">>,
       <<"n", "u", "l", "l">>,
       <<"u", "n", "d", "e", "f", "i", "n", "e", "d">>,
       <<"N", "o", "n", "e">>,
       <<"n", "i", "l">> >>

\* \b(true|false|null|undefined|None|nil)\b
BooleanEndAt(T, s) ==
    LET fits(w) == /\ s + Len(w) <= Len(T)
                   /\ Slice(T, s, s + Len(w)) = w
                   /\ WordBoundary(T, s + Len(w))
        alts == {k \in 1..Len(BooleanWords) : fits(BooleanWords[k])}
    IN  IF WordBoundary(T, s) /\ alts # {}
        THEN s + Len(BooleanWords[Min(alts)])
        ELSE -1

\* \b(\w+):   \w+ takes the whole word run; a shorter one is followed by a
\* word character, never by ':'
KeyEndAt(T, s) ==
    IF s < Len(T) /\ IsWordChar(T[s + 1]) /\ WordBoundary(T, s)
    THEN LET a == RunEnd(T, s, Digits \cup Letters \cup {"_"})
         IN  IF a < Len(T) /\ T[a + 1] = ":" THEN a + 1 ELSE -1
    ELSE -1

\* [\[\]{}()]
BracketEndAt(T, s) ==
    IF s < Len(T) /\ T[s + 1] \in Brackets THEN s + 1 ELSE -1

MatchEndAt(cls, T, s) ==
    CASE cls = "ansi"    -> AnsiEndAt(T, s)
      [] cls = "string"  -> StringEndAt(T, s)
      [] cls = "number"  -> NumberEndAt(T, s)
      [] cls = "boolean" -> BooleanEndAt(T, s)
      [] cls = "key"     -> KeyEndAt(T, s)
      [] cls = "bracket" -> BracketEndAt(T, s)

\* an iterator that resumes one character after the start of the last match
RECURSIVE FindFromNextChar(_, _, _)
FindFromNextChar(cls, T, pos) ==
    LET starts == {s \in pos..(Len(T) - 1) : MatchEndAt(cls, T, s) # -1}
    IN  IF starts = {} THEN <<>>
        ELSE LET s == Min(starts)
                 e == MatchEndAt(cls, T, s)
             IN  <<[start |-> s, end |-> e]>> \o FindFromNextChar(cls, T, s + 1)

\* Regex::find_iter / captures_iter: the leftmost match at or after pos, then
\* the search goes on from its end (no pattern here matches the empty string)
RECURSIVE FindFrom(_, _, _)
FindFrom(cls, T, pos) ==
    LET starts == {s \in pos..(Len(T) - 1) : MatchEndAt(cls, T, s) # -1}
    IN  IF starts = {} THEN <<>>
        ELSE LET s == Min(starts)
                 e == MatchEndAt(cls, T, s)
             IN  <<[start |-> s, end |-> e]>> \o FindFrom(cls, T, e)

find_iter(cls, T) == FindFrom(cls, T, 0)

\* the ansi pattern tried at offset 0 only
contains_ansi_at_start(T) == T # <<>> /\ AnsiEndAt(T, 0) # -1

\* Regex::is_match on the ansi pattern
contains_ansi_codes(T) ==
    \E s \in 0..(Len(T) - 1) : AnsiEndAt(T, s) # -1

-----------------------------------------------------------------------------
(* The colour scheme: every replacement is prefix + text + reset *)

\* a colour sequence that has lost its escape character
SGRNoEsc(params) == <<"[">> \o params \o <<"m">>

\* "\x1b[..m"
SGR(params) == <<ESC, "[">> \o params \o <<"m">>

RESET == SGR(<<"0">>)

Prefix(tag) ==
    CASE tag = "string"   -> SGR(<<"9", "2">>)
      [] tag = "number"   -> SGR(<<"9", "3">>)
      [] tag = "boolean"  -> SGR(<<"9", "3", ";", "1">>)
      [] tag = "nulllike" -> SGR(<<"9", "0">>)
      [] tag = "key"      -> SGR(<<"9", "6">>)
      [] tag = "bracket"  -> SGR(<<"9", "7">>)

Tags == {"string", "number", "boolean", "nulllike", "key", "bracket"}

\* format!("\x1b[92m{}\x1b[0m", mat.as_str())
StringColored(T, mat) == Prefix("string") \o Slice(T, mat.start, mat.end) \o RESET

\* format!("\x1b[93m{}\x1b[0m", mat.as_str())
NumberColored(T, mat) == Prefix("number") \o Slice(T, mat.start, mat.end) \o RESET

\* the colour test with "true" alone
BooleanTagTrueOnly(T, mat) ==
    IF Slice(T, mat.start, mat.end) = BooleanWords[1] THEN "boolean" ELSE "nulllike"

\* matches!(mat.as_str(), "true" | "false") picks the colour
BooleanTag(T, mat) ==
    IF Slice(T, mat.start, mat.end) \in {BooleanWords[1], BooleanWords[2]}
    THEN "boolean"
    ELSE "nulllike"

\* format!("{}{}\x1b[0m", color, mat.as_str())
BooleanColored(T, mat) ==
    Prefix(BooleanTag(T, mat)) \o Slice(T, mat.start, mat.end) \o RESET

\* the key replacement without the ':' after the identifier
KeyColoredNoColon(T, mat) ==
    Prefix("key") \o Slice(T, mat.start, mat.end - 1) \o RESET

\* format!("\x1b[96m{}:\x1b[0m", key) with key = cap.get(1), the match
\* without its final ':'
KeyColored(T, mat) ==
    Prefix("key") \o Slice(T, mat.start, mat.end - 1) \o <<":">> \o RESET

\* format!("\x1b[97m{}\x1b[0m", mat.as_str())
BracketColored(T, mat) == Prefix("bracket") \o Slice(T, mat.start, mat.end) \o RESET

-----------------------------------------------------------------------------
(* The span table *)

EmptyTable == [k \in {} |-> 0]

\* BTreeMap::insert: an entry with the same key is replaced
Insert(table, start, entry) ==
    [k \in DOMAIN table \cup {start} |-> IF k = start THEN entry ELSE table[k]]

\* is_inside_match with only a key collision tested
is_inside_match_same_start(table, start, end) == start \in DOMAIN table

\* is_inside_match with range(..start) in place of range(..=start)
is_inside_match_below(table, start, end) ==
    \E match_start \in DOMAIN table :
        /\ match_start < start
        /\ start < table[match_start].end
        /\ end > match_start

\* is_inside_match: only the entries whose key is <= start are looked at
is_inside_match(table, start, end) ==
    \E match_start \in DOMAIN table :
        /\ match_start <= start
        /\ start < table[match_start].end
        /\ end > match_start

\* the body of the loops of priorities 2..5: insert unless is_inside_match
Accept(table, mat, colored, prio) ==
    IF ~is_inside_match(table, mat.start, mat.end)
    THEN Insert(table, mat.start, [end |-> mat.end, colored |-> colored, prio |-> prio])
    ELSE table

-----------------------------------------------------------------------------
(* Inputs *)

MaxLen == 4

LengthGuard == 1000

Sigma == {DQ, SQ, BS, "1", ".", ":", "a", "[", " ", ESC}

ShortTexts == UNION {[1..k -> Sigma] : k \in 0..MaxLen}

Scenarios ==
    { <<"1", "2", ":", "3", "4">>,
      <<"k", "e", "y", ":", " ", "4", "2">>,
      <<DQ, "h", "e", "l", "l", "o", ":", " ", "5", DQ>>,
      <<"t", "r", "u", "e", " ", "f", "a", "l", "s", "e", " ", "n", "u", "l", "l">>,
      <<"[", "n", "i", "l", ",", "N", "o", "n", "e", "]">>,
      <<"u", "n", "d", "e", "f", "i", "n", "e", "d", ":", "(", ")">>,
      <<"x", ":", SQ, "a", BS, SQ, "b", SQ>>,
      <<"1", ".", "5", "x", " ", "x", "1", "2">>,
      <<"{", "a", ":", "t", "r", "u", "e", "}">>,
      <<ESC, "[", "0", "m", "1">> }

LongTexts ==
    { [i \in 1..(LengthGuard + 1) |-> "1"],
      [i \in 1..(LengthGuard + 1) |-> "a"],
      [i \in 1..LengthGuard |-> IF i = 1 THEN "7" ELSE " "] }

Inputs == ShortTexts \cup Scenarios \cup LongTexts

\* the messages given to the logging macros, and to highlight_syntax beside them
LogInputs ==
    LongTexts \cup
    { <<>>,
      <<"1", "2", ":", "3", "4">>,
      <<"k", "e", "y", ":", " ", "4", "2">>,
      <<"t", "r", "u", "e", " ", "f", "a", "l", "s", "e", " ", "n", "u", "l", "l">>,
      <<ESC, "[", "0", "m", "1">> }

Ranks == 1..5

NoCaller == [kind |-> "none", rank |-> 0]

MacroKinds == {"log_impl", "slog_impl"}

\* nothing printed: the macro's locals text and highlighted_text do not exist
NoLine == [kind |-> "none", rank |-> 0, text |-> <<>>, highlighted_text |-> <<>>]

\* a length test that already turns a message of 1000 characters away
TooLongEarly(T) == Len(T) >= LengthGuard

\* text.len() > 1000 in the macros
TooLong(T) == Len(T) > LengthGuard

\* no call of the level API has been made yet
NoApiCall == [op |-> "none", arg |-> 0, name |-> <<>>, ret |-> "unit"]

NThreads == 2

Threads == 1..NThreads

\* the fields of RegexCache, in the order the initialiser compiles them
PatternNames == <<"ansi", "string", "number", "boolean", "key", "bracket">>

\* no RegexCache
NoBank == [by |-> 0, patterns |-> <<>>]

\* OnceLock::new()
EmptyOnceLock == [state |-> "uninit", bank |-> NoBank]

\* a thread that is not inside get_regex_cache and holds no &RegexCache
NotCalling ==
    [pc |-> "out", from |-> "none", building |-> <<>>, cache |-> NoBank, calls |-> 0]

\* a thread that is not inside highlight_syntax
NoCallLocals ==
    [pc |-> "idle", text |-> <<>>, pending |-> <<>>, visited |-> -1,
     last_end |-> 0, result |-> <<>>]

-----------------------------------------------------------------------------
(* The state machine *)

Init ==
    /\ LEVEL = 5
    /\ pc = "idle"
    /\ caller = NoCaller
    /\ pass = 1
    /\ text = <<>>
    /\ matches = EmptyTable
    /\ pending = <<>>
    /\ consulted = {}
    /\ todo = {}
    /\ last_end = 0
    /\ result = <<>>
    /\ printed = NoLine
    /\ api = NoApiCall
    /\ REGEX_CACHE = EmptyOnceLock
    /\ inits = 0
    /\ getter = [t \in Threads |-> NotCalling]
    /\ thr = [t \in Threads |-> NoCallLocals]
    /\ tables = [t \in Threads |-> EmptyTable]

\* get_regex_cache on the only thread of the program: REGEX_CACHE.get_or_init
\* runs the closure and stores the bank when the cell is uninitialised, and
\* returns the stored bank otherwise
get_regex_cache ==
    IF REGEX_CACHE.state = "uninit"
    THEN /\ REGEX_CACHE' = [state |-> "complete",
                            bank |-> [by |-> 0, patterns |-> PatternNames]]
         /\ inits' = inits + 1
    ELSE UNCHANGED <<REGEX_CACHE, inits>>

\* highlight_syntax up to its first loop: the early return on an empty or
\* already coloured text (contains_ansi_codes, which is not called on an empty
\* text, gets the pattern bank), else the string iterator is created
Enter(T, who, p) ==
    /\ IF T = <<>> THEN UNCHANGED <<REGEX_CACHE, inits>> ELSE get_regex_cache
    /\ text' = T
    /\ caller' = who
    /\ pass' = p
    /\ matches' = EmptyTable
    /\ todo' = {}
    /\ last_end' = 0
    /\ IF T = <<>> \/ contains_ansi_codes(T)
       THEN /\ pc' = "done"
            /\ result' = T
            /\ pending' = <<>>
            /\ consulted' = {}
       ELSE /\ pc' = "strings"
            /\ result' = <<>>
            /\ pending' = find_iter("string", T)
            /\ consulted' = {"string"}

\* a direct call of the public function
Call ==
    /\ pc = "idle"
    /\ \E T \in Inputs : Enter(T, [kind |-> "direct", rank |-> 0], 1)
    /\ UNCHANGED <<LEVEL, printed, api, getter, concVars>>

\* a direct call of the public function by a program that also logs
CallBesideLog ==
    /\ pc = "idle"
    /\ \E T \in LogInputs : Enter(T, [kind |-> "direct", rank |-> 0], 1)
    /\ UNCHANGED <<LEVEL, printed, api, getter, concVars>>

\* the loop over the string matches: every one is inserted, unchecked
Strings ==
    /\ pc = "strings"
    /\ \/ /\ pending # <<>>
          /\ LET mat == Head(pending)
             IN  matches' = Insert(matches, mat.start,
                                   [end |-> mat.end,
                                    colored |-> StringColored(text, mat),
                                    prio |-> 1])
          /\ pending' = Tail(pending)
          /\ UNCHANGED <<pc, consulted>>
       \/ /\ pending = <<>>
          /\ pc' = "numbers"
          /\ pending' = find_iter("number", text)
          /\ consulted' = consulted \cup {"number"}
          /\ UNCHANGED matches
    /\ UNCHANGED <<LEVEL, caller, pass, text, todo, last_end, result, printed>>
    /\ UNCHANGED <<api, onceVars, concVars>>

Numbers ==
    /\ pc = "numbers"
    /\ \/ /\ pending # <<>>
          /\ LET mat == Head(pending)
             IN  matches' = Accept(matches, mat, NumberColored(text, mat), 2)
          /\ pending' = Tail(pending)
          /\ UNCHANGED <<pc, consulted>>
       \/ /\ pending = <<>>
          /\ pc' = "booleans"
          /\ pending' = find_iter("boolean", text)
          /\ consulted' = consulted \cup {"boolean"}
          /\ UNCHANGED matches
    /\ UNCHANGED <<LEVEL, caller, pass, text, todo, last_end, result, printed>>
    /\ UNCHANGED <<api, onceVars, concVars>>

Booleans ==
    /\ pc = "booleans"
    /\ \/ /\ pending # <<>>
          /\ LET mat == Head(pending)
             IN  matches' = Accept(matches, mat, BooleanColored(text, mat), 3)
          /\ pending' = Tail(pending)
          /\ UNCHANGED <<pc, consulted>>
       \/ /\ pending = <<>>
          /\ pc' = "keys"
          /\ pending' = find_iter("key", text)
          /\ consulted' = consulted \cup {"key"}
          /\ UNCHANGED matches
    /\ UNCHANGED <<LEVEL, caller, pass, text, todo, last_end, result, printed>>
    /\ UNCHANGED <<api, onceVars, concVars>>

Keys ==
    /\ pc = "keys"
    /\ \/ /\ pending # <<>>
          /\ LET mat == Head(pending)
             IN  matches' = Accept(matches, mat, KeyColored(text, mat), 4)
          /\ pending' = Tail(pending)
          /\ UNCHANGED <<pc, consulted>>
       \/ /\ pending = <<>>
          /\ pc' = "brackets"
          /\ pending' = find_iter("bracket", text)
          /\ consulted' = consulted \cup {"bracket"}
          /\ UNCHANGED matches
    /\ UNCHANGED <<LEVEL, caller, pass, text, todo, last_end, result, printed>>
    /\ UNCHANGED <<api, onceVars, concVars>>

\* the last loop; when it ends the render loop starts on the ordered table
BracketsLoop ==
    /\ pc = "brackets"
    /\ \/ /\ pending # <<>>
          /\ LET mat == Head(pending)
             IN  matches' = Accept(matches, mat, BracketColored(text, mat), 5)
          /\ pending' = Tail(pending)
          /\ UNCHANGED <<pc, consulted, todo>>
       \/ /\ pending = <<>>
          /\ pc' = "render"
          /\ todo' = DOMAIN matches
          /\ UNCHANGED <<matches, pending, consulted>>
    /\ UNCHANGED <<LEVEL, caller, pass, text, last_end, result, printed>>
    /\ UNCHANGED <<api, onceVars, concVars>>

\* an iteration that hands out the spans from the highest start down
last_key(keys) == Max(keys)

\* `for (start, ..) in matches`: a BTreeMap iterates in ascending key order
first_key(keys) == Min(keys)

\* one turn of the render loop without the untouched text before the span
RenderAppendNoGap(res, T, cursor, start, replacement) == res \o replacement

\* one turn of the render loop: the untouched text up to the span, then the
\* span's replacement
RenderAppend(res, T, cursor, start, replacement) ==
    res \o Slice(T, cursor, start) \o replacement

\* the render loop visits the table in ascending key order; text[a..b] with
\* a > b panics
Render ==
    /\ pc = "render"
    /\ \/ /\ todo # {}
          /\ LET start == first_key(todo)
                 m     == matches[start]
             IN  IF last_end > start
                 THEN /\ pc' = "panic"
                      /\ UNCHANGED <<result, last_end, todo>>
                 ELSE /\ result' = RenderAppend(result, text, last_end, start, m.colored)
                      /\ last_end' = m.end
                      /\ todo' = todo \ {start}
                      /\ pc' = pc
       \/ /\ todo = {}
          /\ result' = result \o Slice(text, last_end, Len(text))
          /\ pc' = "done"
          /\ UNCHANGED <<last_end, todo>>
    /\ UNCHANGED <<LEVEL, caller, pass, text, matches, pending, consulted, printed>>
    /\ UNCHANGED <<api, onceVars, concVars>>

\* the caller feeds the returned string to highlight_syntax once more
Again ==
    /\ pc = "done"
    /\ caller.kind = "direct"
    /\ pass = 1
    /\ Enter(result, caller, 2)
    /\ UNCHANGED <<LEVEL, printed, api, getter, concVars>>

\* the call's locals are dropped
Return ==
    /\ pc = "done"
    /\ caller.kind = "direct"
    /\ pc' = "idle"
    /\ caller' = NoCaller
    /\ pass' = 1
    /\ text' = <<>>
    /\ matches' = EmptyTable
    /\ pending' = <<>>
    /\ consulted' = {}
    /\ todo' = {}
    /\ last_end' = 0
    /\ result' = <<>>
    /\ UNCHANGED <<LEVEL, printed, api, onceVars, concVars>>

\* enum LogLevel
LogLevel == {"Critical", "Error", "Warn", "Info", "Debug"}

\* discriminants that start at 0
as_u8_from_zero(level) ==
    CASE level = "Critical" -> 0
      [] level = "Error"    -> 1
      [] level = "Warn"     -> 2
      [] level = "Info"     -> 3
      [] level = "Debug"    -> 4

\* LogLevel::as_u8: `*self as u8`, the discriminant
as_u8(level) ==
    CASE level = "Critical" -> 1
      [] level = "Error"    -> 2
      [] level = "Warn"     -> 3
      [] level = "Info"     -> 4
      [] level = "Debug"    -> 5

\* LEVEL.store(level.as_u8(), SeqCst)
set_logging_level ==
    /\ \E level \in LogLevel :
           /\ LEVEL' = as_u8(level)
           /\ api' = [op |-> "set_logging_level", arg |-> as_u8(level),
                       name |-> <<level>>, ret |-> "unit"]
    /\ UNCHANGED <<pc, caller, pass, text, matches, pending, consulted, todo,
                   last_end, result, printed, onceVars, concVars>>

None == [some |-> FALSE]

Some(v) == [some |-> TRUE, value |-> v]

\* a conversion that has no arm for 5
from_u8_upto4(value) ==
    CASE value = 1 -> Some("Critical")
      [] value = 2 -> Some("Error")
      [] value = 3 -> Some("Warn")
      [] value = 4 -> Some("Info")
      [] OTHER     -> None

\* LogLevel::from_u8
from_u8(value) ==
    CASE value = 1 -> Some("Critical")
      [] value = 2 -> Some("Error")
      [] value = 3 -> Some("Warn")
      [] value = 4 -> Some("Info")
      [] value = 5 -> Some("Debug")
      [] OTHER     -> None

\* Option::unwrap_or
unwrap_or(opt, default) == IF opt.some THEN opt.value ELSE default

\* get_logging_level: LEVEL.load(Relaxed), then from_u8(level).unwrap_or(Info)
get_logging_level ==
    LET level == LEVEL
    IN  unwrap_or(from_u8(level), "Info")

\* should_log: LEVEL.load(Relaxed), then level.as_u8() <= current_level
should_log(level) ==
    LET current_level == LEVEL
    IN  as_u8(level) <= current_level

UpperCase ==
    <<"A", "B", "C", "D", "E", "F", "G", "H", "I", "J", "K", "L", "M",
      "N", "O", "P", "Q", "R", "S", "T", "U", "V", "W", "X", "Y", "Z">>

LowerCase ==
    <<"a", "b", "c", "d", "e", "f", "g", "h", "i", "j", "k", "l", "m",
      "n", "o", "p", "q", "r", "s", "t", "u", "v", "w", "x", "y", "z">>

\* str::to_lowercase, on the characters of the model
to_lowercase_char(c) ==
    IF \E k \in 1..Len(UpperCase) : UpperCase[k] = c
    THEN LowerCase[CHOOSE k \in 1..Len(UpperCase) : UpperCase[k] = c]
    ELSE c

to_lowercase(s) == [i \in 1..Len(s) |-> to_lowercase_char(s[i])]

Ok(v) == [ok |-> TRUE, value |-> v]

Err == [ok |-> FALSE]

\* a parser that knows the lower-case spellings only
from_str_exact(s) ==
    CASE s = <<"d", "e", "b", "u", "g">> -> Ok("Debug")
      [] s = <<"i", "n", "f", "o">> -> Ok("Info")
      [] s \in {<<"w", "a", "r", "n">>, <<"w", "a", "r", "n", "i", "n", "g">>} -> Ok("Warn")
      [] s = <<"e", "r", "r", "o", "r">> -> Ok("Error")
      [] s \in {<<"c", "r", "i", "t", "i", "c", "a", "l">>, <<"c", "r", "i", "t">>} -> Ok("Critical")
      [] OTHER -> Err

\* <LogLevel as FromStr>::from_str
from_str(s) ==
    LET l == to_lowercase(s)
    IN  CASE l = <<"d", "e", "b", "u", "g">> -> Ok("Debug")
          [] l = <<"i", "n", "f", "o">> -> Ok("Info")
          [] l \in {<<"w", "a", "r", "n">>, <<"w", "a", "r", "n", "i", "n", "g">>} -> Ok("Warn")
          [] l = <<"e", "r", "r", "o", "r">> -> Ok("Error")
          [] l \in {<<"c", "r", "i", "t", "i", "c", "a", "l">>, <<"c", "r", "i", "t">>} -> Ok("Critical")
          [] OTHER -> Err

\* the names given to set_logging_level_from_str and found in LOG_LEVEL
LevelNames ==
    {<<"d", "e", "b", "u", "g">>,
     <<"D", "E", "B", "U", "G">>,
     <<"i", "n", "f", "o">>,
     <<"I", "n", "f", "o">>,
     <<"w", "a", "r", "n">>,
     <<"w", "a", "r", "n", "i", "n", "g">>,
     <<"W", "A", "R", "N", "I", "N", "G">>,
     <<"W", "a", "r", "n">>,
     <<"e", "r", "r", "o", "r">>,
     <<"e", "R", "R", "o", "R">>,
     <<"c", "r", "i", "t", "i", "c", "a", "l">>,
     <<"c", "r", "i", "t">>,
     <<"C", "R", "I", "T">>,
     <<>>,
     <<"t", "r", "a", "c", "e">>,
     <<"5">>,
     <<"w", "a", "r", "n", "i", "n", "g", "s">>,
     <<" ", "i", "n", "f", "o">>,
     <<"i", "n", "f">>,
     <<"d", "e", "b", "u", "g", " ">>,
     <<"o", "f", "f">>,
     <<"c", "r", "i", "t", "i">>}

\* std::env::var("LOG_LEVEL") when the variable is not set
NotPresent == <<"NotPresent">>

\* set_logging_level_from_str: `level.parse()?`, set_logging_level(level), Ok(())
set_logging_level_from_str ==
    /\ \E level \in LevelNames :
           LET parsed == from_str(level)
           IN  IF parsed.ok
               THEN /\ LEVEL' = as_u8(parsed.value)
                    /\ api' = [op |-> "set_logging_level_from_str", arg |-> 0,
                                name |-> level, ret |-> "Ok"]
               ELSE /\ LEVEL' = LEVEL
                    /\ api' = [op |-> "set_logging_level_from_str", arg |-> 0,
                                name |-> level, ret |-> "Err"]
    /\ UNCHANGED <<pc, caller, pass, text, matches, pending, consulted, todo,
                   last_end, result, printed, onceVars, concVars>>

\* set_logging_level_from_env: the variable is read, and when it is set its
\* value goes to set_logging_level_from_str, whose Result is dropped
set_logging_level_from_env ==
    /\ \E var \in LevelNames \cup {NotPresent} :
           /\ IF var # NotPresent /\ from_str(var).ok
              THEN LEVEL' = as_u8(from_str(var).value)
              ELSE LEVEL' = LEVEL
           /\ api' = [op |-> "set_logging_level_from_env", arg |-> 0,
                       name |-> var, ret |-> "unit"]
    /\ UNCHANGED <<pc, caller, pass, text, matches, pending, consulted, todo,
                   last_end, result, printed, onceVars, concVars>>

\* LogLevel::as_str
as_str(level) ==
    CASE level = "Debug"    -> <<"d", "e", "b", "u", "g">>
      [] level = "Info"     -> <<"i", "n", "f", "o">>
      [] level = "Warn"     -> <<"w", "a", "r", "n">>
      [] level = "Error"    -> <<"e", "r", "r", "o", "r">>
      [] level = "Critical" -> <<"c", "r", "i", "t", "i", "c", "a", "l">>

\* the values of a u8
U8 == 0..255

\* a caller of LogLevel::from_u8
call_from_u8 ==
    /\ \E value \in U8 :
           api' = [op |-> "from_u8", arg |-> value, name |-> <<>>,
                   ret |-> IF from_u8(value).some
                           THEN from_u8(value).value ELSE "None"]
    /\ UNCHANGED <<LEVEL, pc, caller, pass, text, matches, pending, consulted, todo,
                   last_end, result, printed, onceVars, concVars>>

\* a caller of str::parse::<LogLevel>
call_from_str ==
    /\ \E s \in LevelNames :
           api' = [op |-> "from_str", arg |-> 0, name |-> s,
                   ret |-> IF from_str(s).ok THEN from_str(s).value ELSE "Err"]
    /\ UNCHANGED <<LEVEL, pc, caller, pass, text, matches, pending, consulted, todo,
                   last_end, result, printed, onceVars, concVars>>

\* a caller that parses level.as_str()
call_as_str_from_str ==
    /\ \E level \in LogLevel :
           LET back == from_str(as_str(level))
           IN  api' = [op |-> "as_str_from_str", arg |-> 0, name |-> <<level>>,
                       ret |-> IF back.ok THEN back.value ELSE "Err"]
    /\ UNCHANGED <<LEVEL, pc, caller, pass, text, matches, pending, consulted, todo,
                   last_end, result, printed, onceVars, concVars>>

\* a caller that converts level.as_u8() back
call_as_u8_from_u8 ==
    /\ \E level \in LogLevel :
           LET back == from_u8(as_u8(level))
           IN  api' = [op |-> "as_u8_from_u8", arg |-> as_u8(level),
                       name |-> <<level>>,
                       ret |-> IF back.some THEN back.value ELSE "None"]
    /\ UNCHANGED <<LEVEL, pc, caller, pass, text, matches, pending, consulted, todo,
                   last_end, result, printed, onceVars, concVars>>

\* a caller of get_logging_level
call_get_logging_level ==
    /\ api' = [op |-> "get_logging_level", arg |-> 0, name |-> <<>>,
                ret |-> get_logging_level]
    /\ UNCHANGED <<LEVEL, pc, caller, pass, text, matches, pending, consulted, todo,
                   last_end, result, printed, onceVars, concVars>>

\* a caller of should_log
call_should_log ==
    /\ \E level \in LogLevel :
           api' = [op |-> "should_log", arg |-> as_u8(level), name |-> <<>>,
                   ret |-> IF should_log(level) THEN "true" ELSE "false"]
    /\ UNCHANGED <<LEVEL, pc, caller, pass, text, matches, pending, consulted, todo,
                   last_end, result, printed, onceVars, concVars>>

\* the long branch of the macros: highlighted_text is the formatted text
\* itself and highlight_syntax is not called
KeepText(T, who) ==
    /\ pc' = "kept"
    /\ caller' = who
    /\ pass' = 1
    /\ text' = T
    /\ result' = T
    /\ matches' = EmptyTable
    /\ pending' = <<>>
    /\ consulted' = {}
    /\ todo' = {}
    /\ last_end' = 0
    /\ UNCHANGED <<REGEX_CACHE, inits>>

\* a gate that lets a line through only when the level is above its rank
MacroStrictGate(kind, level_num, T) ==
    LET current_level == LEVEL
    IN  IF current_level > level_num
        THEN IF TooLong(T)
             THEN /\ KeepText(T, [kind |-> kind, rank |-> level_num])
                  /\ printed' = NoLine
             ELSE /\ Enter(T, [kind |-> kind, rank |-> level_num], 1)
                  /\ printed' = NoLine
        ELSE /\ printed' = NoLine
             /\ UNCHANGED <<pc, caller, pass, text, matches, pending,
                            consulted, todo, last_end, result,
                            REGEX_CACHE, inits>>

\* log_impl! / slog_impl! up to the call of highlight_syntax: the level gate,
\* then the length test on the formatted message; println! is a later step
\* (MacroPrint) for a short and for a long message alike
Macro(kind, level_num, T) ==
    LET current_level == LEVEL
    IN  IF current_level >= level_num
        THEN IF TooLong(T)
             THEN /\ KeepText(T, [kind |-> kind, rank |-> level_num])
                  /\ printed' = NoLine
             ELSE /\ Enter(T, [kind |-> kind, rank |-> level_num], 1)
                  /\ printed' = NoLine
        ELSE /\ printed' = NoLine
             /\ UNCHANGED <<pc, caller, pass, text, matches, pending,
                            consulted, todo, last_end, result,
                            REGEX_CACHE, inits>>

log_impl ==
    /\ pc = "idle"
    /\ \E level_num \in Ranks, T \in LogInputs : Macro("log_impl", level_num, T)
    /\ UNCHANGED <<LEVEL, api, getter, concVars>>

slog_impl ==
    /\ pc = "idle"
    /\ \E level_num \in Ranks, T \in LogInputs : Macro("slog_impl", level_num, T)
    /\ UNCHANGED <<LEVEL, api, getter, concVars>>

\* highlight_syntax has returned into the macro, or the long message has
\* been kept as it is: println!
MacroPrint ==
    /\ pc \in {"done", "kept"}
    /\ caller.kind \in MacroKinds
    /\ printed' = [kind |-> caller.kind, rank |-> caller.rank,
                   text |-> text, highlighted_text |-> result]
    /\ pc' = "idle"
    /\ caller' = NoCaller
    /\ pass' = 1
    /\ text' = <<>>
    /\ matches' = EmptyTable
    /\ pending' = <<>>
    /\ consulted' = {}
    /\ todo' = {}
    /\ last_end' = 0
    /\ result' = <<>>
    /\ UNCHANGED <<LEVEL, api, onceVars, concVars>>

Step == Strings \/ Numbers \/ Booleans \/ Keys \/ BracketsLoop \/ Render

Next == Call \/ Step \/ Again \/ Return

Spec == Init /\ [][Next]_vars

TermLen == 2

\* the texts of the calls whose return is waited for
TermInputs == {T \in ShortTexts : Len(T) <= TermLen}

\* a direct call of the public function
CallToReturn ==
    /\ pc = "idle"
    /\ \E T \in TermInputs : Enter(T, [kind |-> "direct", rank |-> 0], 1)
    /\ UNCHANGED <<LEVEL, printed, api, getter, concVars>>

NextFair == CallToReturn \/ Step \/ Return

\* the thread inside highlight_syntax keeps running: a call that can take a
\* step takes it
SpecFair == Init /\ [][NextFair]_vars /\ WF_vars(Step)

NextLog ==
    \/ set_logging_level
    \/ log_impl
    \/ slog_impl
    \/ CallBesideLog
    \/ Step
    \/ MacroPrint
    \/ Return

SpecLog == Init /\ [][NextLog]_vars

MaxCalls == 2

\* a cell any caller that finds it incomplete goes on to initialise
WinsInitUnlocked(cell) == cell.state # "complete"

\* OnceLock::get_or_init: the one caller that finds the cell uninitialised
\* runs the closure
WinsInit(cell) == cell.state = "uninit"

\* get_regex_cache is entered (from contains_ansi_codes or highlight_syntax):
\* REGEX_CACHE.get_or_init returns at once when the cell is complete, runs the
\* closure when this caller wins the initialisation, blocks otherwise
get_or_init(t, from) ==
    /\ getter[t].pc = "out"
    /\ getter[t].calls < MaxCalls
    /\ IF REGEX_CACHE.state = "complete"
       THEN /\ getter' = [getter EXCEPT ![t].pc = "have",
                                        ![t].from = from,
                                        ![t].cache = REGEX_CACHE.bank,
                                        ![t].calls = @ + 1]
            /\ UNCHANGED <<REGEX_CACHE, inits>>
       ELSE IF WinsInit(REGEX_CACHE)
            THEN /\ REGEX_CACHE' = [REGEX_CACHE EXCEPT !.state = "running"]
                 /\ inits' = inits + 1
                 /\ getter' = [getter EXCEPT ![t].pc = "init",
                                             ![t].from = from,
                                             ![t].building = <<>>,
                                             ![t].calls = @ + 1]
            ELSE /\ getter' = [getter EXCEPT ![t].pc = "wait",
                                             ![t].from = from,
                                             ![t].calls = @ + 1]
                 /\ UNCHANGED <<REGEX_CACHE, inits>>
    /\ UNCHANGED <<LEVEL, pc, caller, pass, text, matches, pending, consulted,
                   todo, last_end, result, printed, api, concVars>>

\* the closure compiles the next pattern: Regex::new(..).unwrap()
compile(t) ==
    /\ getter[t].pc = "init"
    /\ Len(getter[t].building) < Len(PatternNames)
    /\ getter' = [getter EXCEPT ![t].building =
                     Append(@, PatternNames[Len(@) + 1])]
    /\ UNCHANGED <<REGEX_CACHE, inits>>
    /\ UNCHANGED <<LEVEL, pc, caller, pass, text, matches, pending, consulted,
                   todo, last_end, result, printed, api, concVars>>

\* the closure returns the RegexCache; get_or_init stores it in the cell and
\* returns the reference to it
store(t) ==
    /\ getter[t].pc = "init"
    /\ Len(getter[t].building) = Len(PatternNames)
    /\ LET bank == [by |-> t, patterns |-> getter[t].building]
       IN  /\ REGEX_CACHE' = [state |-> "complete", bank |-> bank]
           /\ getter' = [getter EXCEPT ![t].pc = "have",
                                       ![t].building = <<>>,
                                       ![t].cache = bank]
    /\ UNCHANGED inits
    /\ UNCHANGED <<LEVEL, pc, caller, pass, text, matches, pending, consulted,
                   todo, last_end, result, printed, api, concVars>>

\* a blocked caller of get_or_init is released once the cell is complete
wake(t) ==
    /\ getter[t].pc = "wait"
    /\ REGEX_CACHE.state = "complete"
    /\ getter' = [getter EXCEPT ![t].pc = "have", ![t].cache = REGEX_CACHE.bank]
    /\ UNCHANGED <<REGEX_CACHE, inits>>
    /\ UNCHANGED <<LEVEL, pc, caller, pass, text, matches, pending, consulted,
                   todo, last_end, result, printed, api, concVars>>

\* the caller has used the bank and returns
leave(t) ==
    /\ getter[t].pc = "have"
    /\ getter' = [getter EXCEPT ![t].pc = "out"]
    /\ UNCHANGED <<REGEX_CACHE, inits>>
    /\ UNCHANGED <<LEVEL, pc, caller, pass, text, matches, pending, consulted,
                   todo, last_end, result, printed, api, concVars>>

\* threads in get_regex_cache
NextOnce ==
    \E t \in Threads :
        \/ get_or_init(t, "contains_ansi_codes")
        \/ get_or_init(t, "highlight_syntax")
        \/ compile(t)
        \/ store(t)
        \/ wake(t)
        \/ leave(t)

SpecOnce == Init /\ [][NextOnce]_vars

\* the five classifiers in priority order
ClassNames == <<"string", "number", "boolean", "key", "bracket">>

\* the texts the threads highlight side by side
ConcInputs ==
    {<<"a", ":", "1">>,
     <<DQ, "1", DQ, "[">>,
     <<ESC, "[", "0", "m", "1">>}

\* the loops of highlight_syntax in the order they run
PhaseOrder == <<"strings", "numbers", "booleans", "keys", "brackets">>

\* the replacement a loop formats for a match
Colored(cls, T, mat) ==
    CASE cls = "string"  -> StringColored(T, mat)
      [] cls = "number"  -> NumberColored(T, mat)
      [] cls = "boolean" -> BooleanColored(T, mat)
      [] cls = "key"     -> KeyColored(T, mat)
      [] cls = "bracket" -> BracketColored(T, mat)

\* the locals of a call that has just been entered with T
Entered(T) ==
    IF T = <<>> \/ contains_ansi_codes(T)
    THEN [pc |-> "done", text |-> T, pending |-> <<>>, visited |-> -1,
          last_end |-> 0, result |-> T]
    ELSE [pc |-> "strings", text |-> T, pending |-> find_iter("string", T),
          visited |-> -1, last_end |-> 0, result |-> <<>>]

\* one step of a call with locals c and span table `table`: the locals and
\* the table after it
StepOf(c, table) ==
    IF c.pc = "render"
    THEN LET rest == {k \in DOMAIN table : k > c.visited}
         IN  IF rest # {}
             THEN LET start == first_key(rest)
                      m     == table[start]
                  IN  IF c.last_end > start \/ start > Len(c.text)
                      THEN [c |-> [c EXCEPT !.pc = "panic"], table |-> table]
                      ELSE [c |-> [c EXCEPT
                                     !.result = RenderAppend(c.result, c.text,
                                                    c.last_end, start, m.colored),
                                     !.last_end = m.end,
                                     !.visited = start],
                            table |-> table]
             ELSE IF c.last_end > Len(c.text)
                  THEN [c |-> [c EXCEPT !.pc = "panic"], table |-> table]
                  ELSE [c |-> [c EXCEPT
                                 !.result = c.result
                                      \o Slice(c.text, c.last_end, Len(c.text)),
                                 !.pc = "done"],
                        table |-> table]
    ELSE LET p == CHOOSE i \in DOMAIN PhaseOrder : PhaseOrder[i] = c.pc
         IN  IF c.pending # <<>>
             THEN LET mat     == Head(c.pending)
                      colored == Colored(ClassNames[p], c.text, mat)
                  IN  [c |-> [c EXCEPT !.pending = Tail(c.pending)],
                       table |-> IF p = 1
                                 THEN Insert(table, mat.start,
                                             [end |-> mat.end, colored |-> colored,
                                              prio |-> 1])
                                 ELSE Accept(table, mat, colored, p)]
             ELSE IF p < Len(PhaseOrder)
                  THEN [c |-> [c EXCEPT
                                 !.pc = PhaseOrder[p + 1],
                                 !.pending = find_iter(ClassNames[p + 1], c.text)],
                        table |-> table]
                  ELSE [c |-> [c EXCEPT !.pc = "render"], table |-> table]

\* one span table that every thread's call uses
TableSlotShared(t) == 1

\* `let mut matches = BTreeMap::new()`: the table is a local of the call
TableSlot(t) == t

\* thread t calls highlight_syntax: an empty text returns at once; otherwise
\* contains_ansi_codes calls get_regex_cache, and REGEX_CACHE.get_or_init
\* returns at once when the cell is complete, makes this thread run the
\* closure when it wins the initialisation, and blocks it otherwise
highlight_syntax_call(t) ==
    /\ thr[t].pc = "idle"
    /\ \E T \in ConcInputs :
          IF T = <<>> \/ REGEX_CACHE.state = "complete"
          THEN /\ thr' = [thr EXCEPT ![t] = Entered(T)]
               /\ IF Entered(T).pc = "done"
                  THEN tables' = tables
                  ELSE tables' = [tables EXCEPT ![TableSlot(t)] = EmptyTable]
               /\ UNCHANGED <<REGEX_CACHE, inits>>
          ELSE IF WinsInit(REGEX_CACHE)
               THEN /\ REGEX_CACHE' = [REGEX_CACHE EXCEPT !.state = "running"]
                    /\ inits' = inits + 1
                    /\ thr' = [thr EXCEPT ![t] = [NoCallLocals EXCEPT
                                                    !.pc = "init", !.text = T]]
                    /\ UNCHANGED tables
               ELSE /\ thr' = [thr EXCEPT ![t] = [NoCallLocals EXCEPT
                                                    !.pc = "wait", !.text = T]]
                    /\ UNCHANGED <<REGEX_CACHE, inits, tables>>
    /\ UNCHANGED <<LEVEL, pc, caller, pass, text, matches, pending, consulted,
                   todo, last_end, result, printed, api, getter>>

\* the closure of thread t returns the RegexCache, get_or_init stores it, and
\* the call goes on from contains_ansi_codes
highlight_syntax_init(t) ==
    /\ thr[t].pc = "init"
    /\ REGEX_CACHE' = [state |-> "complete",
                       bank |-> [by |-> t, patterns |-> PatternNames]]
    /\ thr' = [thr EXCEPT ![t] = Entered(thr[t].text)]
    /\ IF Entered(thr[t].text).pc = "done"
       THEN tables' = tables
       ELSE tables' = [tables EXCEPT ![TableSlot(t)] = EmptyTable]
    /\ UNCHANGED <<LEVEL, pc, caller, pass, text, matches, pending, consulted,
                   todo, last_end, result, printed, api, inits, getter>>

\* thread t, blocked in get_or_init, is released once the cell is complete
highlight_syntax_wake(t) ==
    /\ thr[t].pc = "wait"
    /\ REGEX_CACHE.state = "complete"
    /\ thr' = [thr EXCEPT ![t] = Entered(thr[t].text)]
    /\ IF Entered(thr[t].text).pc = "done"
       THEN tables' = tables
       ELSE tables' = [tables EXCEPT ![TableSlot(t)] = EmptyTable]
    /\ UNCHANGED <<LEVEL, pc, caller, pass, text, matches, pending, consulted,
                   todo, last_end, result, printed, api, onceVars>>

\* the call of thread t takes its next step
highlight_syntax_step(t) ==
    /\ thr[t].pc \notin {"idle", "init", "wait", "done", "panic"}
    /\ LET n == StepOf(thr[t], tables[TableSlot(t)])
       IN  /\ thr' = [thr EXCEPT ![t] = n.c]
           /\ tables' = [tables EXCEPT ![TableSlot(t)] = n.table]
    /\ UNCHANGED <<LEVEL, pc, caller, pass, text, matches, pending, consulted,
                   todo, last_end, result, printed, api, onceVars>>

\* the call of thread t returns and its locals are dropped
highlight_syntax_return(t) ==
    /\ thr[t].pc = "done"
    /\ thr' = [thr EXCEPT ![t] = NoCallLocals]
    /\ UNCHANGED tables
    /\ UNCHANGED <<LEVEL, pc, caller, pass, text, matches, pending, consulted,
                   todo, last_end, result, printed, api, onceVars>>

\* calls of highlight_syntax on several threads, and level changes meanwhile
NextConc ==
    \/ set_logging_level
    \/ \E t \in Threads :
          \/ highlight_syntax_call(t)
          \/ highlight_syntax_init(t)
          \/ highlight_syntax_wake(t)
          \/ highlight_syntax_step(t)
          \/ highlight_syntax_return(t)

SpecConc == Init /\ [][NextConc]_vars

\* the functions that read and write the level
NextLevel ==
    \/ set_logging_level
    \/ set_logging_level_from_str
    \/ set_logging_level_from_env
    \/ call_get_logging_level
    \/ call_should_log
    \/ call_from_u8
    \/ call_from_str
    \/ call_as_str_from_str
    \/ call_as_u8_from_u8

SpecLevel == Init /\ [][NextLevel]_vars

-----------------------------------------------------------------------------
(* Vocabulary of the properties *)

Phases == {"strings", "numbers", "booleans", "keys", "brackets"}

\* the raw matches of the classifier of priority p over T
Candidates(p, T) ==
    LET ms == find_iter(ClassNames[p], T) IN {ms[k] : k \in 1..Len(ms)}

Intersect(s1, e1, s2, e2) == s1 < e2 /\ s2 < e1

\* the candidate c of priority p is in the table
Accepted(c, p) ==
    /\ c.start \in DOMAIN matches
    /\ matches[c.start].end = c.end
    /\ matches[c.start].prio = p

\* the five loops have run
Resolved == pc \in {"render", "done"} /\ consulted # {}

\* an ESC '[' introducer, any number of digits or semicolons, one ASCII letter
HasEscapeSequence(T) ==
    \E s \in 1..(Len(T) - 2) :
        /\ T[s] = ESC
        /\ T[s + 1] = "["
        /\ \E r \in (s + 2)..Len(T) :
               /\ \A i \in (s + 2)..(r - 1) : T[i] \in Digits \cup {";"}
               /\ T[r] \in Letters

\* C1: at every point of a call (after each insertion, and when the loops
\* have ended) no two entries of the span table intersect.
C1_NoOverlap ==
    \A a \in DOMAIN matches : \A b \in DOMAIN matches :
        a # b => (matches[a].end <= b \/ matches[b].end <= a)

\* a table of two spans, built on a text in which a candidate fell inside an
\* accepted span and was turned down
C1_Witness ==
    /\ Resolved
    /\ Cardinality(DOMAIN matches) >= 2
    /\ \E p \in 2..5 : \E c \in Candidates(p, text) :
           /\ ~Accepted(c, p)
           /\ \E s \in DOMAIN matches : Intersect(c.start, c.end, s, matches[s].end)

\* C2: a second pass over a returned string returns it as it is:
\* highlight_syntax(highlight_syntax(T)) = highlight_syntax(T).
C2_Idempotent ==
    (pc = "done" /\ pass = 2) => result = text

\* the second pass has returned on a string the first pass coloured
C2_Witness ==
    /\ pc = "done"
    /\ pass = 2
    /\ HasEscapeSequence(text)
    /\ \E i \in 1..Len(text) : text[i] = ":"

\* every match of the ansi pattern removed (Regex::replace_all with "")
RECURSIVE StripFrom(_, _, _)
StripFrom(T, ms, cursor) ==
    IF ms = <<>> THEN Slice(T, cursor, Len(T))
    ELSE Slice(T, cursor, Head(ms).start) \o StripFrom(T, Tail(ms), Head(ms).end)

StripAnsi(T) == StripFrom(T, find_iter("ansi", T), 0)

\* C3 as stated: for every text, the returned string without its escape
\* sequences is the text.
C3_StripAnyText ==
    (pc = "done" /\ pass = 1) => StripAnsi(result) = text

\* C3 as amended: for every text that holds no escape sequence, the returned
\* string without its escape sequences is the text.
C3_StripPlainText ==
    (pc = "done" /\ pass = 1 /\ ~HasEscapeSequence(text)) => StripAnsi(result) = text

\* two spans rendered with untouched text between them
C3_Witness ==
    /\ pc = "done"
    /\ pass = 1
    /\ ~HasEscapeSequence(text)
    /\ Cardinality(DOMAIN matches) >= 2
    /\ \E a \in DOMAIN matches : \E b \in DOMAIN matches : matches[a].end < b

\* C4: for every text longer than 1000, highlight_syntax accepts no span and
\* returns the text as it is, whatever tokens the text holds.
C4_LongTextUntouched ==
    (pc = "done" /\ Len(text) > LengthGuard)
        => (matches = EmptyTable /\ result = text)

\* C5: highlight_syntax never faults: the render loop never slices with its
\* cursor past the start (or the end) of the span it visits, so no call
\* panics.
C5_NeverFaults ==
    /\ pc # "panic"
    /\ (pc = "render" /\ todo # {})
           => (last_end <= Min(todo) /\ matches[Min(todo)].end <= Len(text))
    /\ pc = "render" => last_end <= Len(text)

\* the render loop is at its second span, on a text where a candidate was
\* turned down
C5_Witness ==
    /\ pc = "render"
    /\ todo # {}
    /\ last_end > 0
    /\ \E p \in 2..5 : \E c \in Candidates(p, text) : ~Accepted(c, p)

\* the accepted spans of a priority above (a number below) p that intersect c
Blockers(c, p) ==
    {s \in DOMAIN matches :
        matches[s].prio < p /\ Intersect(c.start, c.end, s, matches[s].end)}

Twelve34 == <<"1", "2", ":", "3", "4">>

\* C6 as stated: of two intersecting candidates of different classes, the one
\* of the lower-numbered class is accepted and the other is not.
C6_LowerClassAccepted ==
    Resolved =>
        \A i \in 1..4 : \A j \in (i + 1)..5 :
            \A a \in Candidates(i, text) : \A b \in Candidates(j, text) :
                Intersect(a.start, a.end, b.start, b.end)
                    => (Accepted(a, i) /\ ~Accepted(b, j))

\* C6 as amended: of two intersecting candidates of different classes, the one
\* of the higher-numbered class is never accepted, and the one of the
\* lower-numbered class is accepted unless it intersects an accepted span of a
\* class numbered lower still; for 12:34 the table is exactly the numbers 12
\* and 34.
C6_HigherClassRejected ==
    Resolved =>
        /\ LET raw == [p \in 1..5 |-> Candidates(p, text)]
           IN  \A i \in 1..4 : \A j \in (i + 1)..5 :
                  \A a \in raw[i] : \A b \in raw[j] :
                      Intersect(a.start, a.end, b.start, b.end)
                          => /\ ~Accepted(b, j)
                             /\ Accepted(a, i) <=> (Blockers(a, i) = {})
        /\ text = Twelve34 =>
               /\ DOMAIN matches = {0, 3}
               /\ matches[0].end = 2 /\ matches[0].prio = 2
               /\ matches[3].end = 5 /\ matches[3].prio = 2

\* 12:34 resolved: the key candidate 12: met the number 12
C6_Witness ==
    /\ pc = "done"
    /\ text = Twelve34
    /\ \E b \in Candidates(4, text) : b.start = 0 /\ b.end = 3 /\ ~Accepted(b, 4)
    /\ \E a \in Candidates(2, text) : a.start = 0 /\ a.end = 2 /\ Accepted(a, 2)

\* C7: while a call runs, an entry of the table stays as it is (same key, end,
\* replacement and priority) through every later step, and every entry is a
\* whole candidate of its class: no later candidate replaces an entry, and
\* none is cut down to the free part of the text.
C7_AcceptedIsFinal ==
    [][/\ pc \in Phases \cup {"render"} =>
              \A s \in DOMAIN matches :
                  s \in DOMAIN matches' /\ matches'[s] = matches[s]
       /\ \A s \in DOMAIN matches' :
              [start |-> s, end |-> matches'[s].end]
                  \in Candidates(matches'[s].prio, text')]_vars

\* the call has returned with its table as built, on a text where a later
\* candidate had the start offset (the key) of an accepted span and reached
\* past its end
C7_Witness ==
    /\ pc = "done"
    /\ \E p \in 2..5 : \E c \in Candidates(p, text) :
           /\ c.start \in DOMAIN matches
           /\ matches[c.start].prio < p
           /\ matches[c.start].end < c.end

AllClasses == {"string", "number", "boolean", "key", "bracket"}

\* C8: a call on the empty text or on a text that holds an escape sequence
\* returns the text with an empty table and no classifier run; on any other
\* text the five classifiers are run.
C8_GuardPassthrough ==
    /\ (pc = "done" /\ (text = <<>> \/ HasEscapeSequence(text)))
           => (result = text /\ matches = EmptyTable /\ consulted = {})
    /\ pc \in Phases \cup {"render"}
           => (text # <<>> /\ ~HasEscapeSequence(text))
    /\ (pc = "done" /\ text # <<>> /\ ~HasEscapeSequence(text))
           => consulted = AllClasses

\* a first pass returned on a text with an escape sequence after a bracket
\* and word characters the classifiers would have matched
C8_Witness ==
    /\ pc = "done"
    /\ pass = 1
    /\ HasEscapeSequence(text)
    /\ \E p \in 1..5 : Candidates(p, text) # {}

\* the spans of priority 4 (key labels)
KeySpans == {s \in DOMAIN matches : matches[s].prio = 4}

\* C9 as stated: the replacement of a key label is prefix + identifier + reset
\* + ':' (the colon after the reset), and the span covers the colon.
C9_ColonAfterReset ==
    \A s \in KeySpans :
        /\ matches[s].colored =
               Prefix("key") \o Slice(text, s, matches[s].end - 1) \o RESET \o <<":">>
        /\ text[matches[s].end] = ":"

\* C9 as amended: the replacement of a key label is prefix + identifier + ':'
\* + reset (the colon is inside the colour, before the reset); the identifier
\* is a run of word characters, the span covers the colon, and no other span
\* starts on the colon.
C9_ColonBeforeReset ==
    \A s \in KeySpans :
        LET e == matches[s].end
        IN  /\ matches[s].colored =
                   SGR(<<"9", "6">>) \o Slice(text, s, e - 1) \o <<":">> \o SGR(<<"0">>)
            /\ e - 1 > s
            /\ \A i \in (s + 1)..(e - 1) : IsWordChar(text[i])
            /\ text[e] = ":"
            /\ (e - 1) \notin DOMAIN matches

\* a key label was accepted and rendered, with a bracket span right after it
C9_Witness ==
    /\ pc = "done"
    /\ \E s \in KeySpans : matches[s].end \in DOMAIN matches

TrueFalse == {<<"t", "r", "u", "e">>, <<"f", "a", "l", "s", "e">>}

NullLike == {<<"n", "u", "l", "l">>, <<"u", "n", "d", "e", "f", "i", "n", "e", "d">>,
             <<"N", "o", "n", "e">>, <<"n", "i", "l">>}

\* the colour class of the span at s, from its priority and its text
TagOf(s) ==
    LET p == matches[s].prio
        w == Slice(text, s, matches[s].end)
    IN  CASE p = 1 -> "string"
          [] p = 2 -> "number"
          [] p = 3 /\ w \in TrueFalse -> "boolean"
          [] p = 3 /\ w \in NullLike -> "nulllike"
          [] p = 4 -> "key"
          [] p = 5 -> "bracket"
          [] OTHER -> "none"

\* C10: the replacement of every accepted span is the prefix of its class, the
\* matched text, and the one reset sequence; the six prefixes are pairwise
\* different; true and false take the boolean prefix, null, undefined, None
\* and nil the null-like one.
C10_PrefixTextReset ==
    /\ \A s \in DOMAIN matches :
           /\ TagOf(s) \in Tags
           /\ matches[s].colored =
                  Prefix(TagOf(s)) \o Slice(text, s, matches[s].end) \o SGR(<<"0">>)
    /\ \A t1 \in Tags : \A t2 \in Tags : t1 # t2 => Prefix(t1) # Prefix(t2)

\* true, false and null accepted in one table
C10_Witness ==
    /\ pc = "done"
    /\ \E a \in DOMAIN matches : \E b \in DOMAIN matches : \E c \in DOMAIN matches :
           /\ Slice(text, a, matches[a].end) = <<"t", "r", "u", "e">>
           /\ Slice(text, b, matches[b].end) = <<"f", "a", "l", "s", "e">>
           /\ TagOf(c) = "nulllike"


-----------------------------------------------------------------------------
\* C11: a macro call of rank n (critical = 1 .. debug = 5) formats its message,
\* enters highlight_syntax (or, for a long message, keeps it as it is) and then
\* prints if and only if the level it loads at its start is >= n, whatever
\* the level becomes while the call runs; a call that is gated out constructs
\* no message, leaves highlight_syntax alone and prints nothing; should_log
\* gives the same decision for the same rank and level, and a critical line
\* passes at every level that can be set.
C11_GateAtCallStart ==
    [][ /\ pc = "idle" =>
             \A kind \in MacroKinds, n \in Ranks, T \in LogInputs :
                (Macro(kind, n, T) /\ UNCHANGED <<LEVEL, api>>) =>
                   /\ (LEVEL >= n) <=> (pc' # "idle")
                   /\ (LEVEL >= n) <=> should_log(from_u8(n).value)
                   /\ should_log("Critical")
                   /\ printed' = NoLine
                   /\ LEVEL >= n =>
                         /\ caller' = [kind |-> kind, rank |-> n]
                         /\ text' = T
                         /\ (pc' = "kept") <=> (Len(T) > LengthGuard)
                   /\ LEVEL < n =>
                         UNCHANGED <<pc, caller, pass, text, matches, pending,
                                     consulted, todo, last_end, result,
                                     REGEX_CACHE, inits>>
        /\ (caller.kind \in MacroKinds /\ pc \in {"done", "kept"} /\ pc' # pc) =>
              /\ pc' = "idle"
              /\ printed' = [kind |-> caller.kind, rank |-> caller.rank,
                             text |-> text, highlighted_text |-> result]
        /\ (caller.kind \in MacroKinds /\ pc \notin {"done", "kept"}) =>
              (pc' # "idle" /\ caller' = caller /\ printed' = printed)
        /\ (caller.kind \in MacroKinds /\ LEVEL' # LEVEL) =>
              (pc' = pc /\ caller' = caller /\ text' = text /\ result' = result)
      ]_vars

\* a long debug line is past the gate and not yet printed, and the level has
\* meanwhile been set to Critical
C11_Witness ==
    /\ caller.kind \in MacroKinds
    /\ caller.rank = 5
    /\ pc = "kept"
    /\ Len(text) > LengthGuard
    /\ LEVEL = 1
    /\ api.op = "set_logging_level"

-----------------------------------------------------------------------------
\* the names set_logging_level_from_str recognises among LevelNames, each
\* with the rank it names
Recognised ==
    {<<<<"d", "e", "b", "u", "g">>, 5>>,
     <<<<"D", "E", "B", "U", "G">>, 5>>,
     <<<<"i", "n", "f", "o">>, 4>>,
     <<<<"I", "n", "f", "o">>, 4>>,
     <<<<"w", "a", "r", "n">>, 3>>,
     <<<<"w", "a", "r", "n", "i", "n", "g">>, 3>>,
     <<<<"W", "A", "R", "N", "I", "N", "G">>, 3>>,
     <<<<"W", "a", "r", "n">>, 3>>,
     <<<<"e", "r", "r", "o", "r">>, 2>>,
     <<<<"e", "R", "R", "o", "R">>, 2>>,
     <<<<"c", "r", "i", "t", "i", "c", "a", "l">>, 1>>,
     <<<<"c", "r", "i", "t">>, 1>>,
     <<<<"C", "R", "I", "T">>, 1>>}

\* C12: set_logging_level_from_str with a name it does not recognise returns
\* an error and leaves the level as it was; with a recognised name (debug,
\* info, warn or warning, error, critical or crit, in any letter case) it
\* returns Ok and the level becomes the rank named.
C12_FromStrSetsOrKeeps ==
    [][ (api'.op = "set_logging_level_from_str" /\ api' # api) =>
           IF \E r \in Recognised : r[1] = api'.name
           THEN /\ api'.ret = "Ok"
                /\ \E r \in Recognised : r[1] = api'.name /\ LEVEL' = r[2]
           ELSE /\ api'.ret = "Err"
                /\ LEVEL' = LEVEL
      ]_vars

\* the name WARNING has been given, Ok returned, and the level is Warn
C12_Witness ==
    /\ api.op = "set_logging_level_from_str"
    /\ api.name = <<"W", "A", "R", "N", "I", "N", "G">>
    /\ api.ret = "Ok"
    /\ LEVEL = 3

-----------------------------------------------------------------------------
\* C13: from process start until the first level-change operation the level
\* is Debug (rank 5): get_logging_level() returns Debug, should_log is true of
\* every level, and a macro call of every rank passes the gate. Any line
\* printed in that time has been highlighted or printed as it is, never dropped.
C13_StartsAtDebug ==
    api.op = "none" =>
       /\ LEVEL = 5
       /\ get_logging_level = "Debug"
       /\ \A level \in LogLevel : should_log(level)
       /\ \A level_num \in Ranks : LEVEL >= level_num

\* before any level change a debug line has gone through highlight_syntax and
\* has been printed
C13_Witness ==
    /\ api.op = "none"
    /\ printed.kind = "log_impl"
    /\ printed.rank = 5
    /\ printed.highlighted_text # printed.text

-----------------------------------------------------------------------------
\* a macro call is in highlight_syntax, or back from it and about to print
MacroInHighlight == caller.kind \in MacroKinds /\ pc # "kept"

\* a line a macro has printed
Line == printed.kind \in MacroKinds

\* C14 as stated: the macros print the message without calling
\* highlight_syntax whenever it is longer than 1000 or already contains an
\* escape sequence, and print it unchanged; otherwise they pass it through
\* highlight_syntax.
C14_EscapedNeverPassed ==
    /\ MacroInHighlight =>
          (Len(text) <= LengthGuard /\ ~HasEscapeSequence(text))
    /\ (Line /\ (Len(printed.text) > LengthGuard \/ HasEscapeSequence(printed.text))) =>
          printed.highlighted_text = printed.text

\* C14: the macros print the message without calling highlight_syntax exactly
\* when it is longer than 1000; a message of at most 1000 characters, one of
\* exactly 1000 included, is passed to highlight_syntax, which returns it at
\* its guard, no classifier consulted, when it already contains an escape
\* sequence. A message that is too long or already escaped is printed
\* unchanged; any other is printed as highlight_syntax returns it, coloured
\* when it has a token.
C14_LongSkipsEscapedReturns ==
    /\ MacroInHighlight => Len(text) <= LengthGuard
    /\ pc = "kept" =>
          (Len(text) > LengthGuard /\ result = text /\ consulted = {})
    /\ (MacroInHighlight /\ HasEscapeSequence(text)) =>
          /\ pc = "done"
          /\ result = text
          /\ consulted = {}
          /\ matches = EmptyTable
    /\ (Line /\ (Len(printed.text) > LengthGuard \/ HasEscapeSequence(printed.text))) =>
          printed.highlighted_text = printed.text
    /\ (Line /\ Len(printed.text) <= LengthGuard /\ ~HasEscapeSequence(printed.text)) =>
          IF \E p \in DOMAIN ClassNames : Candidates(p, printed.text) # {}
          THEN /\ printed.highlighted_text # printed.text
               /\ HasEscapeSequence(printed.highlighted_text)
          ELSE printed.highlighted_text = printed.text

\* a message of exactly 1000 characters has been printed, highlighted
C14_Witness ==
    /\ Line
    /\ Len(printed.text) = LengthGuard
    /\ printed.highlighted_text # printed.text

-----------------------------------------------------------------------------
-----------------------------------------------------------------------------
\* the output the spans of a table give: for each span in ascending start
\* order the text from the cursor to its start and then its replacement, and
\* at the end the text from the cursor on
RECURSIVE Concatenation(_, _, _, _)
Concatenation(T, table, keys, cursor) ==
    IF keys = {}
    THEN Slice(T, cursor, Len(T))
    ELSE LET s == CHOOSE k \in keys : \A o \in keys : k <= o
         IN  Slice(T, cursor, s) \o table[s].colored
                \o Concatenation(T, table, keys \ {s}, table[s].end)

\* C18: the renderer visits the accepted spans in strictly ascending start
\* order, in whatever order they were accepted; its cursor starts at 0, never
\* decreases, and is at most the start of each span it comes to; the output
\* is text[cursor..start] and then the replacement, span after span, and
\* then the text from the last end on.
C18_AscendingRender ==
    /\ [](/\ (pc \in Phases \/ (pc = "render" /\ todo = DOMAIN matches)) =>
               (last_end = 0 /\ result = <<>>)
          /\ (pc = "render" /\ todo # {}) =>
               \A k \in todo : last_end <= k
          /\ (pc = "done" /\ Resolved) =>
               result = Concatenation(text, matches, DOMAIN matches, 0))
    /\ [][ (pc = "render" /\ pc' # "done") =>
              \E s \in todo :
                 /\ todo' = todo \ {s}
                 /\ \A k \in todo' : s < k
                 /\ last_end <= s
                 /\ last_end' = matches[s].end
                 /\ last_end < last_end'
                 /\ result' = result \o Slice(text, last_end, s) \o matches[s].colored
          ]_vars

\* the renderer is through a table in which a span that starts earlier was
\* accepted later than one that starts after it
C18_Witness ==
    /\ pc = "done"
    /\ Resolved
    /\ \E a \in DOMAIN matches : \E b \in DOMAIN matches :
          a < b /\ matches[a].prio > matches[b].prio

-----------------------------------------------------------------------------
\* C19: for a text without escape sequences, highlight_syntax returns the
\* text itself when no span is accepted, and when at least one span is
\* accepted it returns a string that differs from the text and of which
\* contains_ansi_codes is true.
C19_ChangedIffAccepted ==
    (pc = "done" /\ ~HasEscapeSequence(text)) =>
        IF DOMAIN matches = {}
        THEN result = text
        ELSE /\ result # text
             /\ contains_ansi_codes(result)

\* a call has returned a text with an accepted span, and it is not the text
C19_Witness ==
    /\ pc = "done"
    /\ pass = 1
    /\ ~HasEscapeSequence(text)
    /\ DOMAIN matches # {}
    /\ result # text
    /\ Len(result) > Len(text)

-----------------------------------------------------------------------------
\* C20: every accepted span is in bounds and not empty,
\* 0 <= start < end <= len(text), and so is every raw match; two matches of
\* the same classifier never overlap each other.
C20_SpansInBounds ==
    pc # "idle" =>
       /\ \A s \in DOMAIN matches :
             /\ 0 <= s
             /\ s < matches[s].end
             /\ matches[s].end <= Len(text)
       /\ \A k \in 1..Len(pending) :
             /\ 0 <= pending[k].start
             /\ pending[k].start < pending[k].end
             /\ pending[k].end <= Len(text)
       \* the raw matches depend on the text alone: they are looked at when
       \* the call is in its first loop and when it is about to return
       /\ pc \in {"strings", "done"} =>
             \A p \in DOMAIN ClassNames :
                LET raw == Candidates(p, text)
                IN  \A a \in raw : \A b \in raw :
                       /\ 0 <= a.start /\ a.start < a.end /\ a.end <= Len(text)
                       /\ a # b => ~Intersect(a.start, a.end, b.start, b.end)

\* two matches of the string classifier side by side, both accepted, the
\* second ending at the end of the text
C20_Witness ==
    /\ Resolved
    /\ Cardinality(Candidates(1, text)) = 2
    /\ \A c \in Candidates(1, text) : Accepted(c, 1)
    /\ \E c \in Candidates(1, text) : c.end = Len(text)

-----------------------------------------------------------------------------
\* C15: the pattern bank is built exactly once, however many threads make
\* their first contains_ansi_codes or highlight_syntax call at the same time;
\* every caller gets the same bank, with all six patterns compiled.
C15_BuiltOnce ==
    /\ inits <= 1
    /\ (inits = 1) <=> (REGEX_CACHE.state # "uninit")
    /\ Cardinality({t \in Threads : getter[t].pc = "init"}) <= 1
    /\ (REGEX_CACHE.state = "complete") <=> (REGEX_CACHE.bank # NoBank)
    /\ \A t \in Threads :
          /\ getter[t].pc = "have" => getter[t].cache # NoBank
          /\ getter[t].cache # NoBank =>
                /\ getter[t].cache = REGEX_CACHE.bank
                /\ getter[t].cache.patterns = PatternNames
          /\ getter[t].calls > 0 /\ getter[t].pc = "out" =>
                getter[t].cache # NoBank

\* two threads made their first call at the same time: one has built the
\* bank and holds it, the other entered meanwhile and is not yet released
C15_Witness ==
    \E t \in Threads : \E u \in Threads :
        /\ getter[t].pc = "have"
        /\ getter[t].calls = 1
        /\ getter[t].cache.by = t
        /\ getter[t].from = "highlight_syntax"
        /\ getter[u].pc = "wait"
        /\ getter[u].calls = 1
        /\ getter[u].from = "contains_ansi_codes"

-----------------------------------------------------------------------------
\* what highlight_syntax returns for T when nothing else runs
RECURSIVE RunAlone(_, _)
RunAlone(c, table) ==
    IF c.pc \in {"done", "panic"} THEN c
    ELSE LET n == StepOf(c, table) IN RunAlone(n.c, n.table)

Alone(T) == RunAlone(Entered(T), EmptyTable)

\* C16: under any interleaving of highlight_syntax calls on different
\* threads and of level changes, each call returns the string it returns
\* when run alone on its text, and never faults; no step of a call reads or
\* writes the level.
C16_AsWhenAlone ==
    /\ [](\A t \in Threads :
             /\ thr[t].pc # "panic"
             /\ thr[t].pc = "done" =>
                   (Alone(thr[t].text).pc = "done"
                      /\ thr[t].result = Alone(thr[t].text).result))
    /\ [][ thr' # thr => (LEVEL' = LEVEL /\ api' = api) ]_vars

\* two calls on different texts have both returned a coloured string, each
\* having run while the other did, and the level has been changed meanwhile
C16_Witness ==
    /\ \A t \in Threads : thr[t].pc = "done" /\ thr[t].result # thr[t].text
    /\ \E t \in Threads : \E u \in Threads : thr[t].text # thr[u].text
    /\ LEVEL = 1

-----------------------------------------------------------------------------
\* C21: every number match is a whole numeric token: a maximal run of digits,
\* optionally followed by one '.' and at least one more digit, with a word
\* boundary on both sides; it never ends in a '.'.
C21_WholeNumericToken ==
    pc = "numbers" =>
       \A c \in Candidates(2, text) :
          LET a == RunEnd(text, c.start, Digits)
          IN  /\ IsDigit(text[c.start + 1])
              /\ WordBoundary(text, c.start)
              /\ WordBoundary(text, c.end)
              /\ \/ c.end = a
                 \/ /\ a < Len(text)
                    /\ text[a + 1] = "."
                    /\ c.end > a + 1
                    /\ c.end = RunEnd(text, a + 1, Digits)
              /\ text[c.end] # "."

-----------------------------------------------------------------------------
\* how many loops a call still has before it, the one it is in included
LoopsLeft ==
    CASE pc = "strings"  -> 6
      [] pc = "numbers"  -> 5
      [] pc = "booleans" -> 4
      [] pc = "keys"     -> 3
      [] pc = "brackets" -> 2
      [] pc = "render"   -> 1
      [] OTHER           -> 0

\* C22: every highlight_syntax call reaches its return: each step of a call
\* either takes one match off the finite list of its classifier loop, or one
\* span off those the render loop has still to visit, moving the cursor on,
\* or leaves the loop for the next one; no step goes back.
C22_Terminates ==
    /\ (pc \in Phases \/ pc = "render") ~> (pc = "done")
    /\ [][ (pc \in Phases \/ pc = "render") =>
             \/ /\ LoopsLeft' = LoopsLeft
                /\ Len(pending') + Cardinality(todo') + 1
                      = Len(pending) + Cardinality(todo)
                /\ pc = "render" => last_end' > last_end
             \/ LoopsLeft' = LoopsLeft - 1
          ]_vars

\* a call that went through all five loops and rendered two spans has
\* reached its return
C22_Witness ==
    /\ pc = "done"
    /\ pass = 1
    /\ Resolved
    /\ Cardinality(DOMAIN matches) >= 2

-----------------------------------------------------------------------------
\* the rank of each level: critical = 1 .. debug = 5
Rank ==
    [l \in {"Critical", "Error", "Warn", "Info", "Debug"} |->
        CASE l = "Critical" -> 1
          [] l = "Error"    -> 2
          [] l = "Warn"     -> 3
          [] l = "Info"     -> 4
          [] l = "Debug"    -> 5]

\* C23: after any sequence of set_logging_level, set_logging_level_from_str
\* and set_logging_level_from_env calls (each stores to LEVEL in one atomic
\* step, so calls of several threads come one after another), LEVEL is in
\* 1..5 and get_logging_level() returns the level of the last set that went
\* through, Debug if there was none; from_u8 never returns None for LEVEL, so
\* the Info fallback is not taken.
C23_LevelInRange ==
    /\ [](/\ LEVEL \in 1..5
          /\ from_u8(LEVEL).some
          /\ Rank[get_logging_level] = LEVEL
          /\ api.op = "none" => get_logging_level = "Debug"
          /\ api.op = "set_logging_level" => get_logging_level = api.name[1]
          /\ (api.op = "set_logging_level_from_str" /\ api.ret = "Ok") =>
                \E r \in Recognised :
                   r[1] = api.name /\ Rank[get_logging_level] = r[2])
    /\ [][ LET named == {r \in Recognised : r[1] = api'.name}
               sets  == \/ api'.op = "set_logging_level"
                        \/ /\ api'.op \in {"set_logging_level_from_str",
                                           "set_logging_level_from_env"}
                           /\ named # {}
           IN  IF sets
               THEN IF api'.op = "set_logging_level"
                    THEN get_logging_level' = api'.name[1]
                    ELSE \E r \in named : Rank[get_logging_level'] = r[2]
               ELSE get_logging_level' = get_logging_level
         ]_vars

\* LOG_LEVEL held a name that is no level, after the level had been set to
\* Error by name: the level is still Error
C23_Witness ==
    /\ api.op = "set_logging_level_from_env"
    /\ api.name = <<"t", "r", "a", "c", "e">>
    /\ LEVEL = 2
    /\ get_logging_level = "Error"

-----------------------------------------------------------------------------
\* C24: names and ranks of levels round-trip: for each of the five levels L,
\* parsing L.as_str() gives L, and from_u8(L.as_u8()) gives Some(L), with
\* L.as_u8() the rank of L; parsing ignores letter case, "warning" parses to
\* Warn and "crit" to Critical, a name that is no level does not parse; and
\* from_u8 returns None for every value outside 1..5.
C24_RoundTrips ==
    /\ api.op = "as_str_from_str" => api.ret = api.name[1]
    /\ api.op = "as_u8_from_u8" =>
          (api.ret = api.name[1] /\ api.arg = Rank[api.name[1]])
    /\ api.op = "from_u8" =>
          IF api.arg \in 1..5
          THEN api.ret \in DOMAIN Rank /\ Rank[api.ret] = api.arg
          ELSE api.ret = "None"
    /\ api.op = "from_str" =>
          IF \E r \in Recognised : r[1] = api.name
          THEN /\ api.ret \in DOMAIN Rank
               /\ \E r \in Recognised : r[1] = api.name /\ Rank[api.ret] = r[2]
          ELSE api.ret = "Err"

\* CRIT, in capitals, has been parsed to Critical
C24_Witness ==
    /\ api.op = "from_str"
    /\ api.name = <<"C", "R", "I", "T">>
    /\ api.ret = "Critical"
====
